---------------------------- MODULE Spec2Model ----------------------------
(***************************************************************************)
(* Product importer: the CSV import pipeline (app/services/               *)
(* product_service.py), the job registry and cancellation protocol        *)
(* (app/api/products.py) and the product table (app/models/database.py).  *)
(*                                                                         *)
(* A SKU is a sequence of one-character strings, so that str.strip() and   *)
(* str.lower() are computed rather than assumed.  A file is a sequence of  *)
(* rows; row number n of a file carries name n and description n, the      *)
(* most general labelling since the importer never inspects either.       *)
(***************************************************************************)
EXTENDS Integers, Sequences, FiniteSets, TLC

\* ------------------------------------------------------------------ bounds
\* Number of import jobs submitted in one behaviour.
MaxJobs == 3
\* Longest uploaded file, in rows.
MaxRows == 3
\* Rows per batch (5000 in product_service.py:158, scaled with MaxRows).
batch_size == 2
\* Number of single-product operations (create, update, delete) in one behaviour.
MaxCrud == 1
\* Largest page number and page size asked of the listing.
MaxPage == 3
MaxPerPage == 3

\* ------------------------------------------------------- program constants
\* ThreadPoolExecutor(max_workers=2)
max_workers == 2

\* --------------------------------------------------------------- SKU text
Space == " "

\* str.lower() on one character.
LowerChar(c) == CASE c = "K" -> "k" [] OTHER -> c

\* str.lower()
Lower(s) == [n \in 1..Len(s) |-> LowerChar(s[n])]

RECURSIVE LStrip(_)
LStrip(s) == IF s # <<>> /\ Head(s) = Space THEN LStrip(Tail(s)) ELSE s

RECURSIVE RStrip(_)
RStrip(s) ==
    IF s # <<>> /\ s[Len(s)] = Space THEN RStrip(SubSeq(s, 1, Len(s) - 1)) ELSE s

\* str.strip()
Strip(s) == LStrip(RStrip(s))

\* The normalized SKU of the data model: trimmed and lowercased.
Normalize(s) == Lower(Strip(s))

\* The SKU texts files and requests are drawn from: two spellings of one
\* normalized SKU, and a second SKU.
RawSkus == { <<"k", "1">>, <<"K", "1", " ">>, <<"k", "2">> }

\* ------------------------------------------------------------------ files
\* A file name is a sequence of characters, so that str.endswith() is computed.
CsvSuffix == <<".", "c", "s", "v">>

\* str.endswith(suffix)
EndsWith(s, suffix) ==
    /\ Len(s) >= Len(suffix)
    /\ SubSeq(s, Len(s) - Len(suffix) + 1, Len(s)) = suffix

ACsv == <<"a">> \o CsvSuffix
BCsv == <<"b">> \o CsvSuffix

\* Temporary file names (file.filename of an upload).
FileNames == { ACsv, BCsv }

\* File names the upload endpoint does not take for CSV.
OtherNames == { <<"a", ".", "t", "x", "t">>, <<"a", ".", "C", "S", "V">>, <<"c", "s", "v">> }

\* The rows of a file whose SKU column is skus.
RowsOf(skus) ==
    [n \in 1..Len(skus) |-> [name |-> n, sku |-> skus[n], description |-> n]]

RECURSIVE SeqsUpTo(_, _)
SeqsUpTo(S, n) ==
    IF n = 0 THEN { <<>> }
    ELSE LET shorter == SeqsUpTo(S, n - 1)
         IN  shorter \cup { Append(q, x) : q \in { r \in shorter : Len(r) = n - 1 }, x \in S }

\* Every file of at most MaxRows rows.
Files == { RowsOf(skus) : skus \in SeqsUpTo(RawSkus, MaxRows) }

\* The rows of a file written without the column c.
DropColumn(rows, c) ==
    [n \in 1..Len(rows) |-> [f \in DOMAIN rows[n] \ {c} |-> rows[n][f]]]

\* The columns a row of a file has.
HasColumn(rows, c) == \A n \in 1..Len(rows) : c \in DOMAIN rows[n]

TaskIds == 1..MaxJobs

\* An optional argument: {} is None, {v} is the value v.
Opt(S) == { {} } \cup { {v} : v \in S }
Val(o) == CHOOSE v \in o : TRUE

VARIABLES
    products,        \* the products table: a set of rows
    nextId,          \* next primary key
    progress_store,  \* task id -> record, the job registry
    cancel_flags,    \* task id -> TRUE
    tmp,             \* /tmp: file name -> content
    nextTask,        \* number of task ids handed out
    pc,              \* position of each job's worker
    job,             \* each worker's locals
    crudOps,         \* number of single-product operations so far
    reader,          \* position of the progress stream of each job
    reply,           \* the last reply of the upload endpoint
    result,          \* the outcome of the last product operation, and its name
    hist             \* history of each job, read by the properties only

vars == <<products, nextId, progress_store, cancel_flags, tmp, nextTask, pc, job,
          crudOps, reader, reply, result, hist>>

\* ----------------------------------------------------------- pandas steps
\* df.drop_duplicates(subset=['sku'], keep='last'): a row stays when no later
\* row has the same sku text; order is kept.
RECURSIVE DropDuplicatesLast(_)
DropDuplicatesLast(rows) ==
    IF rows = <<>> THEN <<>>
    ELSE IF \E n \in 2..Len(rows) : rows[n].sku = Head(rows).sku
         THEN DropDuplicatesLast(Tail(rows))
         ELSE <<Head(rows)>> \o DropDuplicatesLast(Tail(rows))

\* df['sku'] = df['sku'].str.strip().str.lower()
NormalizeSkuColumn(rows) ==
    [n \in 1..Len(rows) |-> [rows[n] EXCEPT !.sku = Normalize(rows[n].sku)]]

\* _preprocess_dataframe
PreprocessDataframe(rows) == NormalizeSkuColumn(DropDuplicatesLast(rows))

\* A lookup that finds no stored SKU.
GetExistingSkusNone(table) == {}

\* _get_existing_skus: SELECT LOWER(sku) FROM products
GetExistingSkus(table) == { Lower(p.sku) : p \in table }

\* The staging loop of one batch: <<new_products, existing_skus, imported>>.
RECURSIVE StageBatch(_, _, _, _)
StageBatch(batch, new_products, existing, imported) ==
    IF batch = <<>> THEN <<new_products, existing, imported>>
    ELSE LET row == Head(batch)
             sku == Lower(row.sku)
         IN  IF sku \notin existing
             THEN StageBatch(Tail(batch),
                             Append(new_products,
                                    [name |-> row.name, sku |-> sku,
                                     description |-> row.description, active |-> TRUE]),
                             existing \cup {sku}, imported + 1)
             ELSE StageBatch(Tail(batch), new_products, existing, imported)

\* row['name'] in the staging loop raises KeyError for the first row that is
\* not passed over, when the frame has no name column.
StagingRaises(batch, existing) ==
    \E n \in 1..Len(batch) :
        "name" \notin DOMAIN batch[n] /\ Lower(batch[n].sku) \notin existing

\* A slice one row short: df.iloc[i:i+batch_size-1].
SliceShort(df, i) ==
    SubSeq(df, i + 1, IF i + batch_size - 1 < Len(df) THEN i + batch_size - 1 ELSE Len(df))

\* df.iloc[i:i+batch_size], i counted from 0
Slice(df, i) ==
    SubSeq(df, i + 1, IF i + batch_size < Len(df) THEN i + batch_size ELSE Len(df))

\* The UNIQUE constraint on products.sku (database.py:38): an insert of
\* these rows is refused when a sku text is already stored or repeats.
ViolatesUnique(table, rows) ==
    \/ \E n \in 1..Len(rows) : \E p \in table : p.sku = rows[n].sku
    \/ \E m, n \in 1..Len(rows) : m # n /\ rows[m].sku = rows[n].sku

\* The table after INSERT of rows, primary keys assigned in order from id.
InsertAll(table, rows, id) ==
    table \cup { [id |-> id + n - 1, name |-> rows[n].name, sku |-> rows[n].sku,
                  description |-> rows[n].description, active |-> rows[n].active]
                 : n \in 1..Len(rows) }

\* min(95, int((i + batch_size) / len(df) * 85) + 10).  The quotient is taken
\* in floating point; for the row counts of the model it has the value of the
\* integer quotient written here.
BatchProgress(i, n) ==
    LET p == (((i + batch_size) * 85) \div n) + 10 IN IF p < 95 THEN p ELSE 95


\* ------------------------------------------------------------------ state
\* dict assignment d[k] = v
Put(d, k, v) == [x \in DOMAIN d \cup {k} |-> IF x = k THEN v ELSE d[x]]

\* del d[k]
Del(d, k) == [x \in DOMAIN d \ {k} |-> d[x]]

\* cancel_flags.get(task_id, False)
CancelRequested(t) == t \in DOMAIN cancel_flags /\ cancel_flags[t]

\* Task ids handed out so far.
Issued == 1..(nextTask - 1)

\* A worker thread of the pool is executing the job.
Running(t) == pc[t] \in {"loading", "preprocess", "check", "batch", "progress", "cleanup"}

\* The job is submitted and has not ended.
Active(t) == pc[t] = "queued" \/ Running(t)

NoLocals == [file_path |-> <<>>, df |-> <<>>, total_rows |-> 0, existing_skus |-> {},
             i |-> 0, imported |-> 0]

\* uploaded: the content submitted; read: the content pd.read_csv returned;
\* before: the table at submission;
\* after: the table when the worker ended; commits: batches committed;
\* skipped: rows the staging loop passed over; error: the exception raised;
\* sawCancel: the worker left the loop on the cancellation flag;
\* cancelAt: batches committed when cancellation was first requested (-1: not
\* requested); inFlight: a batch had passed its check at that moment;
\* disturbed: another writer changed the table while the job was active.
\* inserted: the rows the job committed; returned: the upload endpoint has
\* replied with the task id; delivered: the completed record last sent to a
\* reader of the progress stream; evicted: the record was deleted.
NoHist == [uploaded |-> <<>>, read |-> <<>>, before |-> {}, after |-> {}, commits |-> 0,
           skipped |-> 0, error |-> "", sawCancel |-> FALSE, cancelAt |-> -1,
           inFlight |-> FALSE, disturbed |-> FALSE, inserted |-> {},
           returned |-> FALSE, delivered |-> {}, evicted |-> FALSE]

Init ==
    /\ products = {}
    /\ nextId = 1
    /\ progress_store = <<>>
    /\ cancel_flags = <<>>
    /\ tmp = <<>>
    /\ nextTask = 1
    /\ pc = [t \in TaskIds |-> "none"]
    /\ job = [t \in TaskIds |-> NoLocals]
    /\ crudOps = 0
    /\ reader = [t \in TaskIds |-> "idle"]
    /\ reply = <<>>
    /\ result = <<>>
    /\ hist = [t \in TaskIds |-> NoHist]

\* hist after a write to the table by someone other than job t's worker.
Disturb(t) ==
    [u \in TaskIds |-> IF u # t /\ Active(u) THEN [hist[u] EXCEPT !.disturbed = TRUE]
                       ELSE hist[u]]

\* ---------------------------------------------------------------- upload
\* An upload endpoint that leaves the creation of the record to the worker.
UploadWithoutRecord(fname, content) ==
    /\ EndsWith(fname, CsvSuffix)
    /\ nextTask <= MaxJobs
    /\ LET t == nextTask IN
        /\ tmp' = Put(tmp, fname, content)
        /\ pc' = [pc EXCEPT ![t] = "queued"]
        /\ job' = [job EXCEPT ![t].file_path = fname]
        /\ hist' = [hist EXCEPT ![t].uploaded = content, ![t].before = products]
    /\ nextTask' = nextTask + 1
    /\ UNCHANGED <<products, nextId, progress_store, cancel_flags, crudOps, result, reader, reply>>

\* An upload endpoint that registers the job before it looks at the file name.
UploadRegisteringFirst(fname, content) ==
    /\ nextTask <= MaxJobs
    /\ progress_store' = Put(progress_store, nextTask,
           [progress |-> 0, status |-> <<"Starting...">>, completed |-> FALSE])
    /\ IF ~EndsWith(fname, CsvSuffix)
       THEN /\ reply' = <<400, "Only CSV files allowed">>
            /\ UNCHANGED <<tmp, pc, job, hist, nextTask>>
       ELSE /\ tmp' = Put(tmp, fname, content)
            /\ pc' = [pc EXCEPT ![nextTask] = "queued"]
            /\ job' = [job EXCEPT ![nextTask].file_path = fname]
            /\ hist' = [hist EXCEPT ![nextTask].uploaded = content,
                                    ![nextTask].before = products]
            /\ nextTask' = nextTask + 1
            /\ UNCHANGED reply
    /\ UNCHANGED <<products, nextId, cancel_flags, crudOps, result, reader>>

\* upload_file_direct up to run_in_executor: a file name not ending in .csv
\* is refused with status 400; otherwise the job is registered, the temporary
\* file written and the import handed to the executor.
Upload(fname, content) ==
    IF ~EndsWith(fname, CsvSuffix)
    THEN /\ reply' = <<400, "Only CSV files allowed">>
         /\ UNCHANGED <<products, nextId, progress_store, cancel_flags, tmp, nextTask, pc,
                        job, crudOps, result, reader, hist>>
    ELSE /\ nextTask <= MaxJobs
         /\ LET t == nextTask IN
             /\ progress_store' = Put(progress_store, t,
                    [progress |-> 0, status |-> <<"Starting...">>, completed |-> FALSE])
             /\ tmp' = Put(tmp, fname, content)
             /\ pc' = [pc EXCEPT ![t] = "queued"]
             /\ job' = [job EXCEPT ![t].file_path = fname]
             /\ hist' = [hist EXCEPT ![t].uploaded = content, ![t].before = products]
         /\ nextTask' = nextTask + 1
         /\ UNCHANGED <<products, nextId, cancel_flags, crudOps, result, reader, reply>>

\* upload_file_direct after run_in_executor: the reply carrying the task id.
UploadReturn(t) ==
    /\ pc[t] # "none"
    /\ ~hist[t].returned
    /\ reply' = <<200, "processing", t>>
    /\ hist' = [hist EXCEPT ![t].returned = TRUE]
    /\ UNCHANGED <<products, nextId, progress_store, cancel_flags, tmp, nextTask, pc, job,
                   crudOps, result, reader>>

\* ---------------------------------------------------------------- worker
\* The except branch of import_products_from_csv: the error record, rollback.
Fail(t, e) ==
    /\ progress_store' = Put(progress_store, t,
           [progress |-> 0, status |-> <<"Error", e>>, completed |-> TRUE, error |-> TRUE])
    /\ pc' = [pc EXCEPT ![t] = "failed"]
    /\ job' = [job EXCEPT ![t] = NoLocals]
    /\ hist' = [hist EXCEPT ![t].after = products, ![t].error = e]

\* A pool thread takes the job: the "Loading CSV..." record.
Start(t) ==
    /\ pc[t] = "queued"
    /\ Cardinality({u \in TaskIds : Running(u)}) < max_workers
    /\ progress_store' = Put(progress_store, t,
           [progress |-> 5, status |-> <<"Loading CSV...">>, completed |-> FALSE])
    /\ pc' = [pc EXCEPT ![t] = "loading"]
    /\ UNCHANGED <<products, nextId, cancel_flags, tmp, nextTask, job, crudOps, result, reader,
                   reply, hist>>

\* pd.read_csv(file_path), then the "Preprocessing data..." record.
LoadCsv(t) ==
    /\ pc[t] = "loading"
    /\ IF job[t].file_path \in DOMAIN tmp
       THEN /\ job' = [job EXCEPT ![t].df = tmp[job[t].file_path],
                                  ![t].total_rows = Len(tmp[job[t].file_path])]
            /\ progress_store' = Put(progress_store, t,
                   [progress |-> 10, status |-> <<"Preprocessing data...">>,
                    completed |-> FALSE])
            /\ pc' = [pc EXCEPT ![t] = "preprocess"]
            /\ hist' = [hist EXCEPT ![t].read = tmp[job[t].file_path]]
       ELSE Fail(t, "FileNotFoundError")
    /\ UNCHANGED <<products, nextId, cancel_flags, tmp, nextTask, crudOps, result, reader, reply>>

\* _preprocess_dataframe and _get_existing_skus; imported = 0.  df['sku'] of
\* a frame without that column raises KeyError.
Preprocess(t) ==
    /\ pc[t] = "preprocess"
    /\ IF ~HasColumn(job[t].df, "sku")
       THEN Fail(t, "KeyError")
       ELSE /\ job' = [job EXCEPT ![t].df = PreprocessDataframe(job[t].df),
                                  ![t].existing_skus = GetExistingSkus(products),
                                  ![t].i = 0,
                                  ![t].imported = 0]
            /\ pc' = [pc EXCEPT ![t] = IF Len(PreprocessDataframe(job[t].df)) > 0
                                       THEN "check" ELSE "cleanup"]
            /\ UNCHANGED <<progress_store, hist>>
    /\ UNCHANGED <<products, nextId, cancel_flags, tmp, nextTask, crudOps, result, reader, reply>>

\* A loop head that never looks at the cancellation flag.
CheckCancelIgnoringFlag(t) ==
    /\ pc[t] = "check"
    /\ pc' = [pc EXCEPT ![t] = "batch"]
    /\ UNCHANGED <<products, nextId, progress_store, cancel_flags, tmp, nextTask, job,
                   crudOps, result, reader, reply, hist>>

\* The head of the batch loop: the cancellation check.
CheckCancel(t) ==
    /\ pc[t] = "check"
    /\ IF CancelRequested(t)
       THEN /\ progress_store' = Put(progress_store, t,
                   [progress |-> 0, status |-> <<"Cancelled by user">>,
                    completed |-> TRUE, cancelled |-> TRUE])
            /\ pc' = [pc EXCEPT ![t] = "cleanup"]
            /\ hist' = [hist EXCEPT ![t].sawCancel = TRUE]
       ELSE /\ pc' = [pc EXCEPT ![t] = "batch"]
            /\ UNCHANGED <<progress_store, hist>>
    /\ UNCHANGED <<products, nextId, cancel_flags, tmp, nextTask, job, crudOps, result, reader,
                   reply>>

\* One batch: stage the rows not yet seen, bulk insert, commit.
WriteBatch(t) ==
    /\ pc[t] = "batch"
    /\ LET batch == Slice(job[t].df, job[t].i)
           staged == StageBatch(batch, <<>>, job[t].existing_skus, job[t].imported)
           new_products == staged[1]
       IN  IF StagingRaises(batch, job[t].existing_skus)
           THEN /\ Fail(t, "KeyError")
                /\ UNCHANGED <<products, nextId>>
           ELSE IF ViolatesUnique(products, new_products)
           THEN /\ Fail(t, "IntegrityError")
                /\ UNCHANGED <<products, nextId>>
           ELSE /\ products' = InsertAll(products, new_products, nextId)
                /\ nextId' = nextId + Len(new_products)
                /\ job' = [job EXCEPT ![t].existing_skus = staged[2],
                                      ![t].imported = staged[3]]
                /\ pc' = [pc EXCEPT ![t] = "progress"]
                /\ hist' = [u \in TaskIds |->
                              IF u = t
                              THEN [hist[t] EXCEPT
                                      !.commits = @ + 1,
                                      !.skipped = @ + Len(batch) - Len(new_products),
                                      !.inserted = @ \cup
                                          (InsertAll(products, new_products, nextId)
                                               \ products)]
                              ELSE IF new_products # <<>> THEN Disturb(t)[u] ELSE hist[u]]
                /\ UNCHANGED progress_store
    /\ UNCHANGED <<cancel_flags, tmp, nextTask, crudOps, result, reader, reply>>

\* A failed write that leaves the rows of its batch in the table.
StorageErrorKeepingRows(t) ==
    /\ pc[t] = "batch"
    /\ LET batch == Slice(job[t].df, job[t].i)
           staged == StageBatch(batch, <<>>, job[t].existing_skus, job[t].imported)
       IN  /\ ~StagingRaises(batch, job[t].existing_skus)
           /\ staged[1] # <<>>
           /\ ~ViolatesUnique(products, staged[1])
           /\ products' = InsertAll(products, staged[1], nextId)
           /\ nextId' = nextId + Len(staged[1])
    /\ progress_store' = Put(progress_store, t,
           [progress |-> 0, status |-> <<"Error", "OperationalError">>,
            completed |-> TRUE, error |-> TRUE])
    /\ pc' = [pc EXCEPT ![t] = "failed"]
    /\ job' = [job EXCEPT ![t] = NoLocals]
    /\ hist' = [hist EXCEPT ![t].after = products', ![t].error = "OperationalError"]
    /\ UNCHANGED <<cancel_flags, tmp, nextTask, crudOps, result, reader, reply>>

\* One batch whose INSERT or COMMIT the database refuses (connection lost,
\* database locked): the exception leaves _process_batches, the except branch
\* publishes the error record and rolls the open transaction back.
StorageError(t) ==
    /\ pc[t] = "batch"
    /\ LET batch == Slice(job[t].df, job[t].i)
           staged == StageBatch(batch, <<>>, job[t].existing_skus, job[t].imported)
       IN  ~StagingRaises(batch, job[t].existing_skus)
    /\ Fail(t, "OperationalError")
    /\ UNCHANGED <<products, nextId, cancel_flags, tmp, nextTask, crudOps, result, reader, reply>>

\* A loop that publishes the progress of a batch and stays on that batch.
PublishProgressRepeating(t) ==
    /\ pc[t] = "progress"
    /\ progress_store' = Put(progress_store, t,
           [progress |-> BatchProgress(job[t].i, Len(job[t].df)),
            status |-> <<"Processing...", job[t].i + batch_size, Len(job[t].df),
                         job[t].imported>>,
            completed |-> FALSE])
    /\ pc' = [pc EXCEPT ![t] = IF job[t].i + batch_size < Len(job[t].df)
                               THEN "check" ELSE "cleanup"]
    /\ UNCHANGED <<products, nextId, cancel_flags, tmp, nextTask, job, crudOps, result, reader,
                   reply, hist>>

\* The progress record after a batch, and the loop's step.
PublishProgress(t) ==
    /\ pc[t] = "progress"
    /\ progress_store' = Put(progress_store, t,
           [progress |-> BatchProgress(job[t].i, Len(job[t].df)),
            status |-> <<"Processing...", job[t].i + batch_size, Len(job[t].df),
                         job[t].imported>>,
            completed |-> FALSE])
    /\ job' = [job EXCEPT ![t].i = job[t].i + batch_size]
    /\ pc' = [pc EXCEPT ![t] = IF job[t].i + batch_size < Len(job[t].df)
                               THEN "check" ELSE "cleanup"]
    /\ UNCHANGED <<products, nextId, cancel_flags, tmp, nextTask, crudOps, result, reader, reply,
                   hist>>

\* A worker that ends without publishing its terminal record.
CompleteSilently(t) ==
    /\ pc[t] = "cleanup"
    /\ tmp' = IF job[t].file_path \in DOMAIN tmp THEN Del(tmp, job[t].file_path) ELSE tmp
    /\ pc' = [pc EXCEPT ![t] = "done"]
    /\ job' = [job EXCEPT ![t] = NoLocals]
    /\ hist' = [hist EXCEPT ![t].after = products]
    /\ UNCHANGED <<products, nextId, progress_store, cancel_flags, nextTask, crudOps, result,
                   reader, reply>>

\* After _process_batches returns: remove the file, the "Completed!" record.
Complete(t) ==
    /\ pc[t] = "cleanup"
    /\ tmp' = IF job[t].file_path \in DOMAIN tmp THEN Del(tmp, job[t].file_path) ELSE tmp
    /\ progress_store' = Put(progress_store, t,
           [progress |-> 100, status |-> <<"Completed!", job[t].imported>>,
            completed |-> TRUE, imported |-> job[t].imported])
    /\ pc' = [pc EXCEPT ![t] = "done"]
    /\ job' = [job EXCEPT ![t] = NoLocals]
    /\ hist' = [hist EXCEPT ![t].after = products]
    /\ UNCHANGED <<products, nextId, cancel_flags, nextTask, crudOps, result, reader, reply>>

\* ----------------------------------------------------------- cancellation
\* A cancel request that registers a record for an id it does not know.
CancelStoreCreating(store, t) ==
    Put(store, t, [progress |-> 0, status |-> <<"Cancelling...">>, completed |-> FALSE])

\* cancel_task: the registry after the request.
CancelStore(store, t) ==
    IF t \in DOMAIN store
    THEN [store EXCEPT ![t].status = <<"Cancelling...">>]
    ELSE store

\* cancel_task: the flags after the request.
CancelFlags(flags, t) == Put(flags, t, TRUE)

\* cancel_task
CancelTask(t) ==
    /\ cancel_flags' = CancelFlags(cancel_flags, t)
    /\ progress_store' = CancelStore(progress_store, t)
    /\ hist' = IF t \in TaskIds /\ hist[t].cancelAt = -1
               THEN [hist EXCEPT ![t].cancelAt = hist[t].commits,
                                 ![t].inFlight = (pc[t] = "batch")]
               ELSE hist
    /\ UNCHANGED <<products, nextId, tmp, nextTask, pc, job, crudOps, result, reader, reply>>

\* ------------------------------------------------------------- job state
\* get_task_status: the reply for a task id.
GetTaskStatus(store, t) ==
    IF t \notin DOMAIN store THEN [state |-> "NOT_FOUND"]
    ELSE LET data == store[t] IN
         IF data.completed
         THEN IF "error" \in DOMAIN data
              THEN [state |-> "FAILURE", result |-> data.error]
              ELSE [state |-> "SUCCESS",
                    imported |-> IF "imported" \in DOMAIN data THEN data.imported ELSE 0,
                    total |-> IF "total" \in DOMAIN data THEN data.total ELSE 0]
         ELSE [state |-> "PROGRESS", progress |-> data.progress, status |-> data.status]

\* One turn of the loop of get_progress_stream: the record is sent to the
\* reader; after a completed record the stream sleeps before it evicts.
StreamRead(t) ==
    /\ reader[t] = "idle"
    /\ t \in DOMAIN progress_store
    /\ IF progress_store[t].completed
       THEN /\ reader' = [reader EXCEPT ![t] = "sleeping"]
            /\ hist' = [hist EXCEPT ![t].delivered = {progress_store[t]}]
       ELSE UNCHANGED <<reader, hist>>
    /\ UNCHANGED <<products, nextId, progress_store, cancel_flags, tmp, nextTask, pc, job,
                   crudOps, result, reply>>

\* get_progress_stream after the sleep: the record, if still there, is deleted
\* and the stream ends.
Evict(t) ==
    /\ reader[t] = "sleeping"
    /\ reader' = [reader EXCEPT ![t] = "idle"]
    /\ IF t \in DOMAIN progress_store
       THEN /\ progress_store' = Del(progress_store, t)
            /\ hist' = [hist EXCEPT ![t].evicted = TRUE]
       ELSE UNCHANGED <<progress_store, hist>>
    /\ UNCHANGED <<products, nextId, cancel_flags, tmp, nextTask, pc, job, crudOps, result, reply>>

\* ------------------------------------------------- single-product operations
\* Product.sku.ilike(sku): equality up to case (the SKU texts of the model
\* hold no LIKE wildcard).
ILike(stored, sku) == Lower(stored) = Lower(sku)

\* delete_all_products has counted the rows and not yet deleted them.
DeleteAllRunning == result # <<>> /\ result[1] = "counted"

\* create_product
CreateProduct(name, sku, description, active) ==
    /\ crudOps < MaxCrud
    /\ ~DeleteAllRunning
    /\ crudOps' = crudOps + 1
    /\ IF \E p \in products : ILike(p.sku, sku)
       THEN /\ result' = <<"ValueError", "create_product">>
            /\ UNCHANGED <<products, nextId, hist>>
       ELSE /\ products' = products \cup
                   { [id |-> nextId, name |-> name, sku |-> Lower(sku),
                      description |-> description, active |-> active] }
            /\ nextId' = nextId + 1
            /\ result' = <<"Product", "create_product">>
            /\ hist' = Disturb(0)
    /\ UNCHANGED <<progress_store, cancel_flags, tmp, nextTask, pc, job, reader, reply>>

\* The row of update_product after the field assignments.
Updated(p, name, sku, description, active) ==
    [id |-> p.id,
     name |-> IF name # {} THEN Val(name) ELSE p.name,
     sku |-> IF sku # {} THEN Lower(Val(sku)) ELSE p.sku,
     description |-> IF description # {} THEN Val(description) ELSE p.description,
     active |-> IF active # {} THEN Val(active) ELSE p.active]

\* The uniqueness check of update_product refuses the new SKU.
UpdateRefused(p, sku) ==
    /\ sku # {}
    /\ Val(sku) # <<>>
    /\ Lower(Val(sku)) # p.sku
    /\ \E q \in products : ILike(q.sku, Val(sku)) /\ q.id # p.id

\* An update that writes the new SKU without looking for its owner.
UpdateProductUnchecked(product_id, name, sku, description, active) ==
    /\ crudOps < MaxCrud
    /\ ~DeleteAllRunning
    /\ crudOps' = crudOps + 1
    /\ IF ~ \E p \in products : p.id = product_id
       THEN /\ result' = <<"None", "update_product">>
            /\ UNCHANGED <<products, hist>>
       ELSE LET p == CHOOSE q \in products : q.id = product_id
            IN  /\ products' = (products \ {p}) \cup
                                   {Updated(p, name, sku, description, active)}
                /\ result' = <<"Product", "update_product">>
                /\ hist' = Disturb(0)
    /\ UNCHANGED <<nextId, progress_store, cancel_flags, tmp, nextTask, pc, job, reader,
                   reply>>

\* update_product
UpdateProduct(product_id, name, sku, description, active) ==
    /\ crudOps < MaxCrud
    /\ ~DeleteAllRunning
    /\ crudOps' = crudOps + 1
    /\ IF ~ \E p \in products : p.id = product_id
       THEN /\ result' = <<"None", "update_product">>
            /\ UNCHANGED <<products, hist>>
       ELSE LET p == CHOOSE q \in products : q.id = product_id
            IN  IF UpdateRefused(p, sku)
                THEN /\ result' = <<"ValueError", "update_product">>
                     /\ UNCHANGED <<products, hist>>
                ELSE /\ products' = (products \ {p}) \cup
                                        {Updated(p, name, sku, description, active)}
                     /\ result' = <<"Product", "update_product">>
                     /\ hist' = Disturb(0)
    /\ UNCHANGED <<nextId, progress_store, cancel_flags, tmp, nextTask, pc, job, reader,
                   reply>>

\* delete_product on an existing product_id
DeleteProduct(product_id) ==
    /\ crudOps < MaxCrud
    /\ ~DeleteAllRunning
    /\ \E p \in products : p.id = product_id /\ products' = products \ {p}
    /\ crudOps' = crudOps + 1
    /\ result' = <<"True", "delete_product">>
    /\ hist' = Disturb(0)
    /\ UNCHANGED <<nextId, progress_store, cancel_flags, tmp, nextTask, pc, job, reader,
                   reply>>

\* delete_all_products, first statement: db.query(Product).count()
DeleteAllCount ==
    /\ crudOps < MaxCrud
    /\ ~DeleteAllRunning
    /\ crudOps' = crudOps + 1
    /\ result' = <<"counted", Cardinality(products)>>
    /\ UNCHANGED <<products, nextId, progress_store, cancel_flags, tmp, nextTask, pc, job,
                   reader, reply, hist>>

\* A delete-all that returns the number of rows its DELETE removed.
DeleteAllDeleteRowcount ==
    /\ DeleteAllRunning
    /\ products' = {}
    /\ result' = <<"deleted", Cardinality(products)>>
    /\ hist' = IF products # {} THEN Disturb(0) ELSE hist
    /\ UNCHANGED <<nextId, progress_store, cancel_flags, tmp, nextTask, pc, job, crudOps,
                   reader, reply>>

\* delete_all_products, second statement and commit: db.query(Product).delete(),
\* db.commit(); the count of the first statement is returned.
DeleteAllDelete ==
    /\ DeleteAllRunning
    /\ products' = {}
    /\ result' = <<"deleted", result[2]>>
    /\ hist' = IF products # {} THEN Disturb(0) ELSE hist
    /\ UNCHANGED <<nextId, progress_store, cancel_flags, tmp, nextTask, pc, job, crudOps,
                   reader, reply>>

\* ---------------------------------------------------------------- listing
\* db.query(Product) has no ORDER BY: the database returns the rows of the
\* table in an order of its choosing.  The orders a table can be read in.
ScanOrders(table) ==
    { scan \in [1..Cardinality(table) -> table] :
        \A m, n \in 1..Cardinality(table) : m # n => scan[m] # scan[n] }

\* column ILIKE '%search%' on a SKU: search occurs in it, up to case.
Contains(text, search) ==
    \E n \in 0..(Len(text) - Len(search)) :
        Lower(SubSeq(text, n + 1, n + Len(search))) = Lower(search)

\* The filters of get_products_paginated.  The names and descriptions of the
\* model are labels without text, so a search term is looked for in the SKU.
\* active is None ({}) or one of the lowercase words "true", "false", "none".
Matches(p, search, active) ==
    /\ (search # {} /\ Val(search) # <<>>) => Contains(p.sku, Val(search))
    /\ (active # {} /\ Val(active) \notin {"none", ""}) =>
           p.active = (Val(active) = "true")

\* The rows of a sequence that pass the filters, in order.
RECURSIVE FilterRows(_, _, _)
FilterRows(rows, search, active) ==
    IF rows = <<>> THEN <<>>
    ELSE IF Matches(Head(rows), search, active)
         THEN <<Head(rows)>> \o FilterRows(Tail(rows), search, active)
         ELSE FilterRows(Tail(rows), search, active)

\* OFFSET n and LIMIT m
Offset(rows, n) == SubSeq(rows, n + 1, Len(rows))
Limit(rows, m) == SubSeq(rows, 1, IF m < Len(rows) THEN m ELSE Len(rows))

\* A page count that rounds down.
TotalPagesFloor(total, per_page) == total \div per_page

\* (total + per_page - 1) // per_page
TotalPages(total, per_page) == (total + per_page - 1) \div per_page

\* get_products_paginated, the database reading the table in the order scan
GetProductsPaginated(scan, page, per_page, search, active) ==
    LET query == FilterRows(scan, search, active)
        total == Len(query)
    IN  [products |-> Limit(Offset(query, (page - 1) * per_page), per_page),
         total |-> total,
         page |-> page,
         per_page |-> per_page,
         total_pages |-> TotalPages(total, per_page)]

\* The arguments requests are drawn from.
CreateNames == {0}
UpdateNames == Opt({0})
UpdateActives == Opt({FALSE})
ProductIds == 1..(nextId - 1)
\* The ids handed out and the next one, which no product has.
UpdateIds == 1..nextId

\* ---------------------------------------------------------- specifications
\* No job is submitted while another is active.
NoActiveJob == \A u \in TaskIds : ~Active(u)

\* Files of at most one row.
ShortFiles == { f \in Files : Len(f) <= 1 }

Work ==
    \/ \E t \in TaskIds : Start(t)
    \/ \E t \in TaskIds : LoadCsv(t)
    \/ \E t \in TaskIds : Preprocess(t)
    \/ \E t \in TaskIds : CheckCancel(t)
    \/ \E t \in TaskIds : WriteBatch(t)
    \/ \E t \in TaskIds : PublishProgress(t)
    \/ \E t \in TaskIds : Complete(t)

\* One import of any file, with cancellation requests and single-product
\* operations at any moment.
Next ==
    \/ \E content \in Files : nextTask = 1 /\ Upload(ACsv, content)
    \/ Work
    \/ \E t \in Issued : CancelTask(t)
    \/ \E name \in CreateNames, sku \in RawSkus : CreateProduct(name, sku, 0, TRUE)
    \/ \E id \in UpdateIds, name \in UpdateNames, sku \in Opt(RawSkus),
          active \in UpdateActives : UpdateProduct(id, name, sku, {}, active)
    \/ \E id \in ProductIds : DeleteProduct(id)

Spec == Init /\ [][Next]_vars

\* Imports one after the other, each later one of the file submitted first,
\* with single-product creation between imports.
NextTwice ==
    \/ \E content \in Files :
          /\ NoActiveJob
          /\ nextTask > 1 => content = hist[1].uploaded
          /\ Upload(ACsv, content)
    \/ Work
    \/ \E sku \in RawSkus : NoActiveJob /\ CreateProduct(0, sku, 0, TRUE)

SpecTwice == Init /\ [][NextTwice]_vars

\* Imports of short files side by side, as many as the pool has workers,
\* under any file name, with single-product creation.
NextConcurrent ==
    \/ \E fname \in FileNames, content \in ShortFiles :
          nextTask <= max_workers /\ Upload(fname, content)
    \/ Work
    \/ \E sku \in RawSkus : CreateProduct(0, sku, 0, TRUE)

SpecConcurrent == Init /\ [][NextConcurrent]_vars

\* Files written without the name column or without the sku column.
FilesLackingColumn ==
    { DropColumn(f, c) : f \in Files \ { <<>> }, c \in {"name", "sku"} }

\* One submission under any file name, of a file with or without its required
\* columns, with storage errors and single-product creation at any moment.
NextFaults ==
    \/ \E fname \in {ACsv} \cup OtherNames, content \in Files \cup FilesLackingColumn :
          nextTask = 1 /\ Upload(fname, content)
    \/ Work
    \/ \E t \in TaskIds : StorageError(t)
    \/ \E sku \in RawSkus : CreateProduct(0, sku, 0, TRUE)

SpecFaults == Init /\ [][NextFaults]_vars

\* A task id no upload has handed out.
UnknownIds == {0}

\* One import with its progress stream: the stream and cancellation requests
\* name a task id the upload endpoint has replied with, or an unknown one.
NextReader ==
    \/ \E content \in Files : nextTask = 1 /\ Upload(ACsv, content)
    \/ \E t \in Issued : UploadReturn(t)
    \/ Work
    \/ \E t \in UnknownIds \cup { u \in Issued : hist[u].returned } : CancelTask(t)
    \/ \E t \in Issued : hist[t].returned /\ StreamRead(t)
    \/ \E t \in TaskIds : Evict(t)

SpecReader == Init /\ [][NextReader]_vars

\* One import with delete-all and single-product creation at any moment.
NextDeleteAll ==
    \/ \E content \in Files : nextTask = 1 /\ Upload(ACsv, content)
    \/ Work
    \/ DeleteAllCount
    \/ DeleteAllDelete
    \/ \E sku \in RawSkus : CreateProduct(0, sku, 0, TRUE)

SpecDeleteAll == Init /\ [][NextDeleteAll]_vars

\* One import of any file, with single-product operations at any moment and no
\* cancellation.
NextCatalog ==
    \/ \E content \in Files : nextTask = 1 /\ Upload(ACsv, content)
    \/ Work
    \/ \E name \in CreateNames, sku \in RawSkus : CreateProduct(name, sku, 0, TRUE)
    \/ \E id \in UpdateIds, name \in UpdateNames, sku \in Opt(RawSkus),
          active \in UpdateActives : UpdateProduct(id, name, sku, {}, active)
    \/ \E id \in ProductIds : DeleteProduct(id)

SpecCatalog == Init /\ [][NextCatalog]_vars

\* The file of MaxRows rows that starts with the two SKUs and goes on with
\* the other spelling of the first: more than one batch.
LiveFiles ==
    { f \in Files : /\ Len(f) = MaxRows
                    /\ f[1].sku = <<"k", "1">>
                    /\ f[2].sku = <<"k", "2">>
                    /\ \A n \in 3..Len(f) : f[n].sku = <<"K", "1", " ">> }

\* The steps of the pool thread that runs job t.
WorkOf(t) ==
    \/ Start(t)
    \/ LoadCsv(t)
    \/ Preprocess(t)
    \/ CheckCancel(t)
    \/ WriteBatch(t)
    \/ PublishProgress(t)
    \/ Complete(t)

\* One job more than the pool has workers, with a cancellation request for
\* any of them at any moment.
NextLive ==
    \/ \E content \in LiveFiles :
          nextTask <= max_workers + 1 /\ Upload(ACsv, content)
    \/ \E t \in TaskIds : WorkOf(t)
    \/ \E t \in Issued : cancel_flags = <<>> /\ CancelTask(t)

\* The executor hands a waiting job to a pool thread when one is free, and the
\* operating system schedules the pool: while some worker can take a step,
\* some worker takes one.
SpecLive == Init /\ [][NextLive]_vars /\ WF_vars(\E t \in TaskIds : WorkOf(t))

\* ------------------------------------------------------------- properties
\* The outcome a registry record stands for.
Outcome(rec) ==
    IF ~rec.completed THEN "running"
    ELSE IF "error" \in DOMAIN rec THEN "failure"
    ELSE IF "cancelled" \in DOMAIN rec THEN "cancelled"
    ELSE "success"

\* The normalized SKUs of a set of table rows, and of the rows of a file.
TableSkus(table) == { Normalize(p.sku) : p \in table }
FileSkus(rows) == { Normalize(rows[n].sku) : n \in 1..Len(rows) }

\* The last row of a file with normalized SKU s.
LastRow(rows, s) ==
    rows[CHOOSE n \in 1..Len(rows) :
            /\ Normalize(rows[n].sku) = s
            /\ \A m \in (n + 1)..Len(rows) : Normalize(rows[m].sku) # s]

\* The import ran through every batch with no other writer to the table.
RanAlone(t) == ~hist[t].sawCancel /\ ~hist[t].disturbed

\* C1: a job's record, once completed with one outcome, never later shows
\* another outcome; a cancelled record is never followed by a success record.
C1_OneTerminalOutcome ==
    [][\A t \in TaskIds :
          ( /\ t \in DOMAIN progress_store
            /\ t \in DOMAIN progress_store'
            /\ Outcome(progress_store[t]) # "running" )
          => Outcome(progress_store'[t]) = Outcome(progress_store[t])]_vars

\* C2: a job that ended on the cancellation flag after committing a batch
\* leaves in the table exactly the rows of the batches it committed, and its
\* terminal record is the cancelled outcome carrying that number as its
\* imported count.
C2_CancelledRecord ==
    \A t \in TaskIds :
        (pc[t] = "done" /\ hist[t].sawCancel /\ hist[t].commits >= 1
            /\ ~hist[t].disturbed) =>
            /\ hist[t].before \subseteq hist[t].after
            /\ t \in DOMAIN progress_store
            /\ Outcome(progress_store[t]) = "cancelled"
            /\ "imported" \in DOMAIN progress_store[t]
            /\ progress_store[t].imported =
                   Cardinality(hist[t].after \ hist[t].before)

\* C3: after an import that ran alone, every normalized SKU of the file that
\* was not in the table is stored with the name and description of the last
\* row of the file having that normalized SKU.
C3_LastWriteWins ==
    \A t \in TaskIds :
        (pc[t] = "done" /\ RanAlone(t)) =>
            \A s \in FileSkus(hist[t].uploaded) \ TableSkus(hist[t].before) :
                \E p \in hist[t].after :
                    /\ p.sku = s
                    /\ p.name = LastRow(hist[t].uploaded, s).name
                    /\ p.description = LastRow(hist[t].uploaded, s).description

\* C4: no two rows of the table share a normalized SKU.
C4_NormalizedSkuUnique ==
    \A p, q \in products : p # q => Normalize(p.sku) # Normalize(q.sku)

\* C5: a job importing the file submitted with it, whose insert loses a
\* uniqueness race at commit time, does not end in the failure outcome
\* because of it.
C5_RaceLoserNotFailed ==
    \A t \in TaskIds :
        hist[t].read = hist[t].uploaded => hist[t].error # "IntegrityError"

\* C6: the progress a reader sees for a job never decreases, and 100 is seen
\* only in the record of a job that ran through every batch.
C6_ProgressMonotone ==
    /\ [][\A t \in TaskIds :
             (t \in DOMAIN progress_store /\ t \in DOMAIN progress_store')
             => progress_store'[t].progress >= progress_store[t].progress]_vars
    /\ [](\A t \in DOMAIN progress_store :
             progress_store[t].progress = 100 =>
                 /\ Outcome(progress_store[t]) = "success"
                 /\ ~hist[t].sawCancel)

\* C7: once a record has completed = true, its progress and status never
\* change while the record is in the registry.
C7_CompletedFrozen ==
    [][\A t \in TaskIds :
          ( /\ t \in DOMAIN progress_store
            /\ t \in DOMAIN progress_store'
            /\ progress_store[t].completed )
          => /\ progress_store'[t].progress = progress_store[t].progress
             /\ progress_store'[t].status = progress_store[t].status]_vars

\* C8 as stated: once cancellation has been requested for a job, the worker
\* commits no further batch of it.
C8_NoCommitAfterRequest ==
    [][\A t \in TaskIds :
          CancelRequested(t) => hist'[t].commits = hist[t].commits]_vars

\* C8 as amended: once cancellation has been requested for a job, the worker
\* commits no batch whose cancellation check comes after the request; at
\* most the one batch that had passed its check when the request arrived is
\* still committed.
C8_AtMostInFlightBatch ==
    \A t \in TaskIds :
        hist[t].cancelAt # -1 =>
            hist[t].commits <= hist[t].cancelAt + (IF hist[t].inFlight THEN 1 ELSE 0)

\* A request arrived while a batch was in flight, the batch was committed, and
\* the worker then stopped on the flag with rows still unprocessed.
C8_Witness ==
    \E t \in TaskIds :
        /\ hist[t].inFlight
        /\ hist[t].commits = hist[t].cancelAt + 1
        /\ hist[t].sawCancel

\* C9: when an import ran alone through every batch, the rows imported, the
\* rows dropped as repeats within the file and the rows passed over as already
\* known add up to the rows parsed, and the imported count is the number of
\* rows the table gained.
C9_RowsAccounted ==
    \A t \in TaskIds :
        (pc[t] = "cleanup" /\ RanAlone(t)) =>
            /\ job[t].imported + (job[t].total_rows - Len(job[t].df)) + hist[t].skipped
                   = job[t].total_rows
            /\ hist[t].before \subseteq products
            /\ job[t].imported = Cardinality(products \ hist[t].before)

\* An import that ran alone imported a row, dropped a repeat within the file
\* and passed over a known SKU.
C9_Witness ==
    \E t \in TaskIds :
        /\ pc[t] = "cleanup" /\ RanAlone(t)
        /\ job[t].imported >= 1
        /\ job[t].total_rows - Len(job[t].df) >= 1
        /\ hist[t].skipped >= 1

\* Job t imports the file job t - 1 imported alone to the end, with no change
\* to the table in between or meanwhile.
SecondRun(t) ==
    /\ t > 1
    /\ pc[t - 1] = "done" /\ RanAlone(t - 1)
    /\ hist[t].uploaded = hist[t - 1].uploaded
    /\ hist[t].before = hist[t - 1].after
    /\ ~hist[t].disturbed

\* C10: the second import of a file imports no row and leaves the table as
\* it was.
C10_SecondImportIdle ==
    \A t \in TaskIds :
        (SecondRun(t) /\ pc[t] \in {"cleanup", "done", "failed"}) =>
            /\ pc[t] # "failed"
            /\ pc[t] = "cleanup" => job[t].imported = 0 /\ products = hist[t].before
            /\ pc[t] = "done" => hist[t].after = hist[t].before

\* A second import of a file whose first import added rows has ended.
C10_Witness ==
    \E t \in TaskIds :
        /\ SecondRun(t) /\ pc[t] = "done" /\ ~hist[t].sawCancel
        /\ hist[t - 1].after # hist[t - 1].before

\* _process_batches run to its end with no other writer and no cancellation:
\* the table, the imported count and whether the insert was refused.
RECURSIVE ProcessBatches(_, _, _, _, _, _)
ProcessBatches(df, i, table, id, existing, imported) ==
    IF i >= Len(df) THEN [table |-> table, imported |-> imported, failed |-> FALSE]
    ELSE LET staged == StageBatch(Slice(df, i), <<>>, existing, imported)
         IN  IF ViolatesUnique(table, staged[1])
             THEN [table |-> table, imported |-> imported, failed |-> TRUE]
             ELSE ProcessBatches(df, i + batch_size, InsertAll(table, staged[1], id),
                                 id + Len(staged[1]), staged[2], staged[3])

\* import_products_from_csv of the rows of a file into a table, run alone.
ImportAlone(table, id, rows) ==
    ProcessBatches(PreprocessDataframe(rows), 0, table, id, GetExistingSkus(table), 0)

\* What a table holds, apart from primary keys.
Contents(table) == { <<p.sku, p.name, p.description>> : p \in table }

\* The files that differ from rows only in the case of SKU letters and in
\* whitespace around SKUs.
Respellings(rows) ==
    { g \in Files : /\ Len(g) = Len(rows)
                    /\ \A n \in 1..Len(rows) :
                          Normalize(g[n].sku) = Normalize(rows[n].sku) }

\* C11: when an import ran alone, importing any respelling of its file (case
\* of SKU letters, whitespace around SKUs) into the table it started from
\* gives the same imported count and the same table contents.
C11_SpellingIrrelevant ==
    \A t \in TaskIds :
        (pc[t] = "done" /\ RanAlone(t) /\ t \in DOMAIN progress_store) =>
            \A g \in Respellings(hist[t].uploaded) :
                LET other == ImportAlone(hist[t].before, nextId, g)
                IN  /\ ~other.failed
                    /\ other.imported = progress_store[t].imported
                    /\ Contents(other.table) = Contents(hist[t].after)

\* The classification of a task id the data model calls for.
Classified(store, t) ==
    IF t \notin DOMAIN store THEN "NOT_FOUND"
    ELSE CASE Outcome(store[t]) = "running" -> "PROGRESS"
           [] Outcome(store[t]) = "success" -> "SUCCESS"
           [] Outcome(store[t]) = "failure" -> "FAILURE"
           [] OTHER -> "CANCELLED"

\* C12: the job-state query reports every task id by the state of its record:
\* running, succeeded, failed, cancelled, or not found; a cancelled job is
\* never reported as succeeded or failed.
C12_StatusByState ==
    \A t \in TaskIds \cup UnknownIds :
        GetTaskStatus(progress_store, t).state = Classified(progress_store, t)

\* C13: when a storage error ends batch k of a job, the table is left as it
\* was before that batch, the rows of the earlier batches are in it, the job's
\* record is the failure outcome, and the job commits nothing afterwards.
C13_BatchDurability ==
    /\ [][\A t \in TaskIds :
             (pc[t] = "batch" /\ pc'[t] = "failed"
                 /\ hist'[t].error \in {"OperationalError", "IntegrityError"}) =>
                 /\ products' = products
                 /\ hist[t].inserted \subseteq products'
                 /\ hist'[t].inserted = hist[t].inserted
                 /\ Outcome(progress_store'[t]) = "failure"]_vars
    /\ [][\A t \in TaskIds :
             pc[t] = "failed" =>
                 /\ pc'[t] = "failed"
                 /\ hist'[t].commits = hist[t].commits
                 /\ hist'[t].inserted = hist[t].inserted]_vars

\* The second batch of a job met a storage error after the first had
\* committed rows.
C13_Witness ==
    \E t \in TaskIds :
        /\ pc[t] = "failed"
        /\ hist[t].error = "OperationalError"
        /\ hist[t].commits >= 1
        /\ hist[t].inserted # {}
        /\ hist[t].inserted \subseteq products

\* The file lacks a required column.
LacksRequiredColumn(rows) == ~HasColumn(rows, "name") \/ ~HasColumn(rows, "sku")

\* C14: a job whose file lacks the name or the sku column ends in the failure
\* outcome, with no row of the file persisted.
C14_InputErrorFails ==
    \A t \in TaskIds :
        (LacksRequiredColumn(hist[t].uploaded) /\ pc[t] \in {"done", "failed"}) =>
            /\ pc[t] = "failed"
            /\ t \in DOMAIN progress_store
            /\ Outcome(progress_store[t]) = "failure"
            /\ hist[t].inserted = {}

\* C15: a step of the importer keeps every row of the table as it is, and no
\* row the importer inserts has a normalized SKU that was in the table when
\* the job was submitted.
C15_InsertOnly ==
    /\ [][\A t \in TaskIds :
             (Running(t) /\ pc'[t] # pc[t]) => products \subseteq products']_vars
    /\ [](\A t \in TaskIds :
             ~hist[t].disturbed =>
                 \A p \in hist[t].inserted :
                     Normalize(p.sku) \notin TableSkus(hist[t].before))

\* C16: a record leaves the registry only when it is completed, a completed
\* record of the job has been sent to a reader, and the outcome it stands for
\* is the one the reader was sent.
C16_EvictAfterDelivery ==
    [][\A t \in TaskIds :
          (t \in DOMAIN progress_store /\ t \notin DOMAIN progress_store') =>
              /\ progress_store[t].completed
              /\ hist[t].delivered # {}
              /\ \E d \in hist[t].delivered :
                     Outcome(d) = Outcome(progress_store[t])]_vars

\* C17: an upload refused for its file name registers no record, starts no
\* worker, writes no file and leaves the table and the flags as they were.
C17_NonCsvRejected ==
    [][(reply' # reply /\ reply'[1] = 400) =>
          UNCHANGED <<products, nextId, progress_store, cancel_flags, tmp, nextTask, pc,
                      job>>]_vars

\* A file name not ending in .csv was refused and nothing is registered.
C17_Witness ==
    /\ reply # <<>>
    /\ reply[1] = 400
    /\ progress_store = <<>>
    /\ nextTask = 1

\* C18: the record of a job changes only in a step of the worker of that job.
C18_SingleWriter ==
    [][\A t \in TaskIds :
          ( /\ t \in DOMAIN progress_store
            /\ t \in DOMAIN progress_store'
            /\ progress_store'[t] # progress_store[t] )
          => (Running(t) \/ pc[t] = "queued") /\ pc'[t] # pc[t]]_vars

\* C19: a cancel request for any task id sets its flag and creates no record,
\* and a second request changes nothing the first has left.
C19_CancelIdempotent ==
    \A t \in TaskIds \cup UnknownIds :
        LET store1 == CancelStore(progress_store, t)
            flags1 == CancelFlags(cancel_flags, t)
        IN  /\ flags1[t]
            /\ DOMAIN store1 = DOMAIN progress_store
            /\ CancelStore(store1, t) = store1
            /\ CancelFlags(flags1, t) = flags1

\* Cancellation has been requested for an unknown id and for a job whose record
\* was evicted; neither has a record.
C19_Witness ==
    /\ \E u \in UnknownIds : CancelRequested(u) /\ u \notin DOMAIN progress_store
    /\ \E t \in TaskIds :
          hist[t].evicted /\ CancelRequested(t) /\ t \notin DOMAIN progress_store

\* The record upload_file_direct creates.
StartingRecord == [progress |-> 0, status |-> <<"Starting...">>, completed |-> FALSE]

\* C20 as stated: when the upload endpoint replies with the task id, the
\* registry holds the running record with progress 0 for it; until eviction
\* the id has a record; no record is created for an id that has one.
C20_RecordAtReturn ==
    /\ [][\A t \in TaskIds :
             (~hist[t].returned /\ hist'[t].returned) =>
                 /\ t \in DOMAIN progress_store'
                 /\ progress_store'[t].progress = 0
                 /\ ~progress_store'[t].completed]_vars
    /\ [](\A t \in TaskIds :
             (hist[t].returned /\ ~hist[t].evicted) =>
                 GetTaskStatus(progress_store, t).state # "NOT_FOUND")
    /\ [][\A t \in TaskIds :
             (pc[t] = "none" /\ pc'[t] # "none") => t \notin DOMAIN progress_store]_vars

\* C20 as amended: the upload endpoint creates the running record with
\* progress 0 for a fresh task id before it replies with the id; when it
\* replies, and until eviction, the id has a record.
C20_RecordBeforeReturn ==
    /\ [][\A t \in TaskIds :
             (pc[t] = "none" /\ pc'[t] # "none") =>
                 /\ t \notin DOMAIN progress_store
                 /\ t \in DOMAIN progress_store'
                 /\ progress_store'[t] = StartingRecord]_vars
    /\ [](\A t \in TaskIds :
             (pc[t] # "none" /\ ~hist[t].evicted) =>
                 GetTaskStatus(progress_store, t).state # "NOT_FOUND")

\* The reply with the task id came when the worker had already published
\* progress.
C20_Witness ==
    \E t \in TaskIds :
        /\ hist[t].returned
        /\ ~hist[t].evicted
        /\ t \in DOMAIN progress_store
        /\ progress_store[t].progress > 0

\* C21: the success record of a job that ran to its end, and the succeeded
\* reply of the job-state query, carry the imported count and the total, the
\* number of rows parsed from the file.
C21_SuccessCarriesTotal ==
    \A t \in TaskIds :
        (pc[t] = "done" /\ ~hist[t].sawCancel /\ t \in DOMAIN progress_store) =>
            /\ "imported" \in DOMAIN progress_store[t]
            /\ progress_store[t].imported = Cardinality(hist[t].inserted)
            /\ "total" \in DOMAIN progress_store[t]
            /\ GetTaskStatus(progress_store, t).state = "SUCCESS"
            /\ GetTaskStatus(progress_store, t).total = Len(hist[t].read)

\* The postcondition of update_product called with these arguments.
UpdateContract(product_id, name, sku, description, active) ==
    IF ~ \E p \in products : p.id = product_id
    THEN result' = <<"None", "update_product">> /\ products' = products
    ELSE LET p == CHOOSE q \in products : q.id = product_id
             taken == /\ sku # {}
                      /\ \E q \in products :
                            q.id # product_id /\ Lower(q.sku) = Lower(Val(sku))
         IN  IF taken
             THEN result' = <<"ValueError", "update_product">> /\ products' = products
             ELSE /\ result' = <<"Product", "update_product">>
                  /\ products' \ {q \in products' : q.id = product_id}
                        = products \ {p}
                  /\ \E q \in products' :
                        /\ q.id = product_id
                        /\ name = {} => q.name = p.name
                        /\ name # {} => q.name = Val(name)
                        /\ sku = {} => q.sku = p.sku
                        /\ description = {} => q.description = p.description
                        /\ active = {} => q.active = p.active
                        /\ active # {} => q.active = Val(active)

\* C22: an update keeps the product's id and the fields not supplied, leaves
\* every other row alone, is refused with an error and without effect when the
\* new SKU is, up to case, the SKU of another product, and returns not-found
\* without effect for an id no product has.
C22_UpdateContract ==
    [][\A id \in UpdateIds, name \in UpdateNames, sku \in Opt(RawSkus),
          active \in UpdateActives :
          UpdateProduct(id, name, sku, {}, active) =>
              UpdateContract(id, name, sku, {}, active)]_vars

\* An update was refused for its SKU, the table holding two products.
C22_Witness ==
    /\ result = <<"ValueError", "update_product">>
    /\ \E p, q \in products : p.id # q.id /\ p.sku # q.sku

\* ceil(total / per_page): the least number of pages of per_page rows that
\* hold total rows.
Ceil(total, per_page) ==
    CHOOSE k \in 0..total :
        /\ k * per_page >= total
        /\ \A j \in 0..(k - 1) : j * per_page < total

\* The arguments the listing is asked with.
Pages == 1..MaxPage
PerPages == 1..MaxPerPage
Searches == Opt({ <<"K">>, <<"2">> })
ActiveFilters == Opt({ "true", "false", "none" })

\* C23: the listing reports ceil(total / per_page) pages (0 for no match),
\* echoes page and per_page, and returns at most per_page products: the
\* matches at offsets (page-1)*per_page up to page*per_page-1 of the order
\* the database reads them in.
C23_Pagination ==
    \A page \in Pages, per_page \in PerPages, search \in Searches,
       active \in ActiveFilters, scan \in ScanOrders(products) :
        LET r == GetProductsPaginated(scan, page, per_page, search, active)
            matching == { p \in products : Matches(p, search, active) }
            Pos(p) == CHOOSE n \in 1..Len(scan) : scan[n] = p
            \* the number of matches read before p: the offset of a match
            OffsetOf(p) == Cardinality({ q \in matching : Pos(q) < Pos(p) })
        IN  /\ r.total = Cardinality(matching)
            /\ r.total_pages = Ceil(r.total, per_page)
            /\ r.total = 0 => r.total_pages = 0
            /\ r.page = page /\ r.per_page = per_page
            /\ Len(r.products) <= per_page
            /\ { r.products[n] : n \in 1..Len(r.products) }
                   = { p \in matching :
                         /\ OffsetOf(p) >= (page - 1) * per_page
                         /\ OffsetOf(p) <= page * per_page - 1 }
            /\ \A n \in 1..Len(r.products) :
                   OffsetOf(r.products[n]) = (page - 1) * per_page + n - 1

\* The table holds an active and an inactive product: the second page of one
\* row is the last, a page of three is not full, and the filter on active
\* leaves one match.
C23_Witness ==
    /\ Cardinality(products) = 2
    /\ \E p \in products : ~p.active
    /\ \A scan \in ScanOrders(products) :
        /\ GetProductsPaginated(scan, 2, 1, {}, {}).total_pages = 2
        /\ Len(GetProductsPaginated(scan, 2, 1, {}, {}).products) = 1
        /\ GetProductsPaginated(scan, 1, 3, {}, {}).total_pages = 1
        /\ GetProductsPaginated(scan, 1, 3, {}, {"true"}).total = 1

\* C24: delete-all leaves the table empty and returns the number of products
\* it removed.
C24_DeleteAllCount ==
    [][(DeleteAllRunning /\ products' = {} /\ result' # result) =>
          /\ result'[1] = "deleted"
          /\ result'[2] = Cardinality(products)]_vars

\* C25: a product created singly is stored with its SKU lowercased and
\* trimmed; a creation whose SKU is, up to case, that of a stored product is
\* refused and leaves the table as it was.
C25_CreateNormalized ==
    [][\A sku \in RawSkus :
          CreateProduct(0, sku, 0, TRUE) =>
              IF \E p \in products : Lower(p.sku) = Lower(sku)
              THEN result' = <<"ValueError", "create_product">> /\ products' = products
              ELSE \E p \in products' :
                      /\ products' = products \cup {p}
                      /\ p \notin products
                      /\ p.sku = Normalize(sku)]_vars

\* The rows a committing step of job t adds to the table.
BatchRows(t) ==
    LET staged == StageBatch(Slice(job[t].df, job[t].i), <<>>, job[t].existing_skus, 0)
    IN  { <<staged[1][n].sku, staged[1][n].name, staged[1][n].description>> :
             n \in 1..Len(staged[1]) }

\* C26: within a job the batches are committed in file order and one at a
\* time: the k-th commit is of the batch at offset (k-1)*batch_size and adds
\* all of its staged rows in one step, no batch is written while the one
\* before it has not committed, and the progress record of a batch is
\* published only after that batch committed.
C26_BatchesInOrder ==
    /\ [][\A t \in TaskIds :
             hist'[t].commits # hist[t].commits =>
                 /\ pc[t] = "batch"
                 /\ hist'[t].commits = hist[t].commits + 1
                 /\ job[t].i = hist[t].commits * batch_size
                 /\ Contents(products' \ products) = BatchRows(t)]_vars
    /\ [](\A t \in TaskIds :
             /\ pc[t] \in {"check", "batch"} => job[t].i = hist[t].commits * batch_size
             /\ pc[t] = "progress" => job[t].i + batch_size = hist[t].commits * batch_size
             /\ (t \in DOMAIN progress_store
                    /\ progress_store[t].status[1] = "Processing...") =>
                    progress_store[t].status[2] <= hist[t].commits * batch_size)

\* A job has committed its second batch and published its progress.
C26_Witness ==
    \E t \in TaskIds :
        /\ hist[t].commits = 2
        /\ hist[t].inserted # {}
        /\ t \in DOMAIN progress_store
        /\ progress_store[t].status[1] = "Processing..."
        /\ progress_store[t].status[2] = 2 * batch_size

\* C27: the worker reads the cancellation flag at the start of each batch:
\* with the flag set it leaves the loop there and commits nothing more, so
\* after a request at most the batch in flight is committed.
C27_StopsAtNextBoundary ==
    /\ [][\A t \in TaskIds :
             (pc[t] = "check" /\ CancelRequested(t) /\ pc'[t] # pc[t]) =>
                 /\ pc'[t] = "cleanup"
                 /\ hist'[t].sawCancel
                 /\ products' = products]_vars
    /\ [][\A t \in TaskIds :
             hist[t].sawCancel => hist'[t].commits = hist[t].commits]_vars
    /\ [](\A t \in TaskIds :
             (hist[t].cancelAt # -1 /\ ~hist[t].inFlight) =>
                 hist[t].commits = hist[t].cancelAt)
    /\ [](\A t \in TaskIds :
             (hist[t].cancelAt # -1 /\ hist[t].inFlight) =>
                 hist[t].commits <= hist[t].cancelAt + 1)

\* A request came between two batches, with rows left, and the worker stopped
\* at the next batch start without a further commit.
C27_Witness ==
    \E t \in TaskIds :
        /\ hist[t].sawCancel
        /\ ~hist[t].inFlight
        /\ hist[t].cancelAt >= 1
        /\ hist[t].commits = hist[t].cancelAt

\* C28: a record that is not completed has a progress between 0 and 95; the
\* record published after the batch at offset i shows
\* min(95, floor((i + b) * 85 / n) + 10), and a rows-processed figure that
\* does not exceed the total n.
C28_ProgressFigures ==
    /\ [](\A t \in DOMAIN progress_store :
             ~progress_store[t].completed =>
                 /\ progress_store[t].progress >= 0
                 /\ progress_store[t].progress <= 95
                 /\ progress_store[t].status[1] = "Processing..." =>
                        progress_store[t].status[2] <= progress_store[t].status[3])
    /\ [][\A t \in TaskIds :
             (pc[t] = "progress" /\ pc'[t] # "progress") =>
                 LET p == ((job[t].i + batch_size) * 85) \div Len(job[t].df) + 10
                 IN  progress_store'[t].progress = IF p < 95 THEN p ELSE 95]_vars

\* C29: every submitted job eventually has a registry record with completed
\* true, also with more jobs than workers and with cancellation requested at
\* any moment.
C29_EventuallyCompleted ==
    \A t \in TaskIds :
        (pc[t] # "none") ~>
            (t \in DOMAIN progress_store /\ progress_store[t].completed)

\* Every worker of the pool is busy, a further job waits for one, and its
\* cancellation has been requested.
C29_Witness ==
    \E t \in TaskIds :
        /\ pc[t] = "queued"
        /\ Cardinality({ u \in TaskIds : Running(u) }) = max_workers
        /\ CancelRequested(t)
        /\ ~progress_store[t].completed

\* C30: a job reads the content uploaded with it, and never fails because its
\* temporary file is missing.
C30_OwnContent ==
    \A t \in TaskIds :
        /\ hist[t].error # "FileNotFoundError"
        /\ pc[t] \in {"preprocess", "check", "batch", "progress", "cleanup", "done"} =>
               hist[t].read = hist[t].uploaded

=============================================================================
